---- MODULE Spec2Model ----
(***************************************************************************)
(* Anti-Proxy (rust-proxy/src/main.rs): a forwarding proxy that serializes *)
(* inbound calls with a one-permit semaphore, spaces dispatch starts with  *)
(* a timestamp guarded by a mutex, and fails over across two endpoints.    *)
(*                                                                         *)
(* Each inbound call of handle_proxy is a process; its pc is the await     *)
(* point it is suspended at.  Time is a global millisecond clock.          *)
(* Text is a sequence of code points, a body a sequence of bytes.          *)
(* The handler has no cancellation point of its own; the server drops the  *)
(* future of a call whose client has gone, at the await it is suspended at.*)
(***************************************************************************)
EXTENDS Integers, Sequences, FiniteSets, TLC

\* ---------------------------------------------------------------- bounds
\* concurrent inbound calls (connections); a finished one may call again
NumCalls == 3
\* the clock advances in steps of TickMs milliseconds ...
TickMs == 250
\* ... and stops at MaxTime (in LiveSpec: later, as far as a sleeping call needs)
MaxTime == 1000

Calls == 1..NumCalls

\* ----------------------------------------------------------- configuration
MIN_REQUEST_INTERVAL_MS == 500

ENDPOINTS == <<"cloudcode-pa", "daily-cloudcode-pa.sandbox">>

\* Semaphore::new(1)
InitialPermitsTwo == 1 + 1
InitialPermits == 1

\* Option<T>
None == <<>>
Some(x) == <<x>>

\* ------------------------------------------------------ upstream behaviour
\* status codes an endpoint may answer with
Statuses == {200, 204, 302, 400, 401, 403, 404, 429, 500, 503}

\* a response body as the endpoint sends it: its bytes, and whether the
\* transfer of the body completes (it does not when the connection breaks or
\* the overall timeout elapses while the body is read)
Bodies ==
    { [bytes |-> <<66, 67>>,  complete |-> TRUE],
      [bytes |-> <<66, 67>>,  complete |-> FALSE],
      [bytes |-> <<66, 255>>, complete |-> TRUE] }

NoBody == [bytes |-> <<>>, complete |-> FALSE]

\* ------------------------------------------------------------ pure helpers
\* StatusCode::is_success
IsSuccess(status) == status >= 200 /\ status <= 299

\* StatusCode::is_server_error
IsServerErrorOnly500(status) == status = 500
IsServerError(status) == status >= 500 /\ status <= 599

\* ---- lossy decoding of the body bytes as UTF-8
\* a continuation byte
IsCont(b) == b >= 128 /\ b <= 191

\* bytes after the lead byte b of a well-formed sequence (0: b is no lead byte)
TailLen(b) ==
    IF b >= 194 /\ b <= 223 THEN 1
    ELSE IF b >= 224 /\ b <= 239 THEN 2
    ELSE IF b >= 240 /\ b <= 244 THEN 3
    ELSE 0

\* the second byte b2 may follow the lead byte b: no overlong form, no
\* surrogate, nothing above U+10FFFF
SecondOk(b, b2) ==
    IF b = 224 THEN b2 >= 160 /\ b2 <= 191
    ELSE IF b = 237 THEN b2 >= 128 /\ b2 <= 159
    ELSE IF b = 240 THEN b2 >= 144 /\ b2 <= 191
    ELSE IF b = 244 THEN b2 >= 128 /\ b2 <= 143
    ELSE IsCont(b2)

\* how many bytes from position i on belong to one well-formed sequence or to
\* one maximal ill-formed prefix of a sequence
GoodLen(bytes, i) ==
    LET n == TailLen(bytes[i])
        has(k) == i + k <= Len(bytes)
    IN  IF n = 0 \/ ~has(1) \/ ~SecondOk(bytes[i], bytes[i + 1]) THEN 1
        ELSE IF n = 1 \/ ~has(2) \/ ~IsCont(bytes[i + 2]) THEN 2
        ELSE IF n = 2 \/ ~has(3) \/ ~IsCont(bytes[i + 3]) THEN 3
        ELSE 4

\* the code point of the well-formed sequence of n + 1 bytes at position i
CodePoint(bytes, i, n) ==
    IF n = 1 THEN (bytes[i] - 192) * 64 + (bytes[i + 1] - 128)
    ELSE IF n = 2
    THEN (bytes[i] - 224) * 4096 + (bytes[i + 1] - 128) * 64 + (bytes[i + 2] - 128)
    ELSE (bytes[i] - 240) * 262144 + (bytes[i + 1] - 128) * 4096
             + (bytes[i + 2] - 128) * 64 + (bytes[i + 3] - 128)

RECURSIVE Utf8LossyFrom(_, _)
Utf8LossyFrom(bytes, i) ==
    IF i > Len(bytes) THEN <<>>
    ELSE IF bytes[i] < 128 THEN <<bytes[i]>> \o Utf8LossyFrom(bytes, i + 1)
    ELSE LET n == TailLen(bytes[i])
             k == GoodLen(bytes, i)
         IN  IF n > 0 /\ k = n + 1
             THEN <<CodePoint(bytes, i, n)>> \o Utf8LossyFrom(bytes, i + k)
             ELSE <<65533>> \o Utf8LossyFrom(bytes, i + k)

\* String::from_utf8_lossy: a well-formed sequence gives its code point, each
\* maximal ill-formed run of bytes gives one U+FFFD
Utf8Lossy(bytes) == Utf8LossyFrom(bytes, 1)

\* response.text().await.unwrap_or_default(): the decoded body, or the empty
\* String when reading the body fails
ResponseText(body) ==
    IF body.complete THEN Utf8Lossy(body.bytes) ELSE <<>>

\* "All endpoints failed"
AllEndpointsFailed ==
    <<65, 108, 108, 32, 101, 110, 100, 112, 111, 105, 110, 116, 115, 32,
      102, 97, 105, 108, 101, 100>>

ProxyResponseNoStatus(success, data, error, status_code) ==
    [success |-> success, data |-> data, error |-> error,
     status_code |-> <<>>]
ProxyResponse(success, data, error, status_code) ==
    [success |-> success, data |-> data, error |-> error,
     status_code |-> status_code]

NoResponse == [http |-> 0, json |-> ProxyResponse(FALSE, None, None, None)]

\* the body of the loop of handle_proxy after .send().await: what one
\* endpoint's result makes the handler do
MatchResult(result) ==
    IF ~result.ok
    THEN [continue |-> TRUE, resp |-> NoResponse]
    ELSE IF IsSuccess(result.status)
    THEN [continue |-> FALSE,
          resp |-> [http |-> 200,
                    json |-> ProxyResponse(TRUE, Some(ResponseText(result.body)),
                                           None, None)]]
    ELSE LET error_text == ResponseText(result.body) IN
         IF result.status = 429
         THEN [continue |-> FALSE,
               resp |-> [http |-> 429,
                         json |-> ProxyResponse(FALSE, None, Some(error_text),
                                                Some(429))]]
         ELSE IF result.status = 400
         THEN [continue |-> FALSE,
               resp |-> [http |-> 400,
                         json |-> ProxyResponse(FALSE, None, Some(error_text),
                                                Some(400))]]
         ELSE IF result.status \in {401, 403}
         THEN [continue |-> FALSE,
               resp |-> [http |-> result.status,
                         json |-> ProxyResponse(FALSE, None, Some(error_text),
                                                Some(result.status))]]
         ELSE IF IsServerError(result.status)
         THEN [continue |-> TRUE, resp |-> NoResponse]
         ELSE [continue |-> FALSE,
               resp |-> [http |-> result.status,
                         json |-> ProxyResponse(FALSE, None, Some(error_text),
                                                Some(result.status))]]

\* the value returned after the loop
ExhaustedBadGateway ==
    [http |-> 502,
     json |-> ProxyResponse(FALSE, None, Some(AllEndpointsFailed), Some(502))]
Exhausted ==
    [http |-> 503,
     json |-> ProxyResponse(FALSE, None, Some(AllEndpointsFailed), Some(503))]

\* ------------------------------------------------------------------- state
VARIABLES
    now,            \* the clock (Instant::now()), in ms
    last_request,   \* AppState.last_request: Option<Instant>
    last_lock,      \* holder of the last_request Mutex: None or Some(call)
    permits,        \* AppState.request_semaphore: permits available
    waiters,        \* the semaphore's wait queue, oldest first
    pc,             \* per call: where handle_proxy is suspended
    deadline,       \* per call: when its sleep(wait_time) ends (0: never slept)
    charges,        \* per call: writes of last_request made by this call
    sent,           \* per call: endpoints (indices) a request was sent to
    results,        \* per call: status of each finished attempt (0: transport failure)
    order,          \* calls that requested the gate and have not ended, oldest first
    returned,       \* the return of handle_proxy made by the latest step, if any
    req_body,       \* per call: `body`, the JSON request body built before the loop
    wire,           \* per call: the body each attempt put on the wire
    response,       \* per call: status of the Response whose body is being read
    health          \* the answer of the /health route given by the latest step, if any

vars == <<now, last_request, last_lock, permits, waiters, pc, deadline,
          charges, sent, results, order, returned, req_body, wire, response,
          health>>

\* what the rate limiter and the gate share between calls, and what each call holds
dispatch_vars == <<now, last_request, last_lock, permits, waiters, pc, deadline,
                   charges, sent, results, order, req_body, wire, response>>

\* between acquiring the permit and returning the response
Region == {"acquired", "woken", "locked", "sleeping", "stamp", "attempt",
           "pending", "reading"}

InRegion(c) == pc[c] \in Region

Init ==
    /\ now = 0
    /\ last_request = None
    /\ last_lock = None
    /\ permits = InitialPermits
    /\ waiters = <<>>
    /\ pc = [c \in Calls |-> "idle"]
    /\ deadline = [c \in Calls |-> 0]
    /\ charges = [c \in Calls |-> 0]
    /\ sent = [c \in Calls |-> <<>>]
    /\ results = [c \in Calls |-> <<>>]
    /\ order = <<>>
    /\ returned = None
    /\ req_body = [c \in Calls |-> None]
    /\ wire = [c \in Calls |-> <<>>]
    /\ response = [c \in Calls |-> None]
    /\ health = None

\* ----------------------------------------------------------------- actions
\* the step hands nothing to a client
Silent == returned' = None /\ health' = None

\* time passes
Tick ==
    /\ now + TickMs <= MaxTime
    /\ now' = now + TickMs
    /\ UNCHANGED <<last_request, last_lock, permits, waiters, pc, deadline,
                   charges, sent, results, order, req_body, wire, response>>
    /\ Silent

\* an inbound call reaches request_semaphore.acquire(): it takes the permit
\* when one is available, and queues behind the earlier waiters otherwise
Acquire(c) ==
    /\ pc[c] \in {"idle", "done", "dropped"}
    /\ order' = Append(order, c)
    /\ IF permits > 0
       THEN /\ permits' = permits - 1
            /\ pc' = [pc EXCEPT ![c] = "acquired"]
            /\ UNCHANGED waiters
       ELSE /\ waiters' = Append(waiters, c)
            /\ pc' = [pc EXCEPT ![c] = "waiting"]
            /\ UNCHANGED permits
    /\ UNCHANGED <<now, last_request, last_lock, deadline, charges, sent,
                   results, req_body, wire, response>>
    /\ Silent

\* ---- AppState::enforce_rate_limit
\* elapsed < min_interval
TooSoonNever(elapsed) == FALSE
TooSoon(elapsed) == elapsed < MIN_REQUEST_INTERVAL_MS

\* min_interval - elapsed
WaitTimeFull(elapsed) == MIN_REQUEST_INTERVAL_MS
WaitTime(elapsed) == MIN_REQUEST_INTERVAL_MS - elapsed

\* self.last_request.lock().await, once the permit is held
LockLast(c) ==
    /\ pc[c] \in {"acquired", "woken"}
    /\ last_lock = None
    /\ last_lock' = Some(c)
    /\ pc' = [pc EXCEPT ![c] = "locked"]
    /\ UNCHANGED <<now, last_request, permits, waiters, deadline, charges,
                   sent, results, order, req_body, wire, response>>
    /\ Silent

\* the read of *last: sleep(wait_time) when the previous dispatch started
\* less than the interval ago, no suspension otherwise
CheckElapsed(c) ==
    /\ pc[c] = "locked"
    /\ IF last_request # None /\ TooSoon(now - last_request[1])
       THEN /\ deadline' = [deadline EXCEPT ![c] = now + WaitTime(now - last_request[1])]
            /\ pc' = [pc EXCEPT ![c] = "sleeping"]
       ELSE /\ pc' = [pc EXCEPT ![c] = "stamp"]
            /\ UNCHANGED deadline
    /\ UNCHANGED <<now, last_request, last_lock, permits, waiters, charges,
                   sent, results, order, req_body, wire, response>>
    /\ Silent

\* the sleep ends
WakeUp(c) ==
    /\ pc[c] = "sleeping"
    /\ now >= deadline[c]
    /\ pc' = [pc EXCEPT ![c] = "stamp"]
    /\ UNCHANGED <<now, last_request, last_lock, permits, waiters, deadline,
                   charges, sent, results, order, req_body, wire, response>>
    /\ Silent

\* format!("agent-{}", uuid::Uuid::new_v4()): the values a fresh id may take
RequestIds == {"agent-uuid-a", "agent-uuid-b"}

\* json!({model, userAgent, requestType, project, requestId, request}): the
\* payload fields are those of the call's ProxyRequest
JsonBody(c, id) ==
    [requestId |-> id, userAgent |-> "antigravity", requestType |-> "agent",
     payload |-> c]

\* the holder of the last_request Mutex once enforce_rate_limit has returned:
\* the guard `last` is dropped at the end of the function
GuardKept(c) == Some(c)
GuardAfterRateLimit(c) == None

\* *last = Some(Instant::now()); the guard is dropped; the request body is built
Stamp(c) ==
    /\ pc[c] = "stamp"
    /\ last_request' = Some(now)
    /\ last_lock' = GuardAfterRateLimit(c)
    /\ charges' = [charges EXCEPT ![c] = @ + 1]
    /\ \E id \in RequestIds : req_body' = [req_body EXCEPT ![c] = Some(JsonBody(c, id))]
    /\ pc' = [pc EXCEPT ![c] = "attempt"]
    /\ UNCHANGED <<now, permits, waiters, deadline, sent, results, order,
                   wire, response>>
    /\ Silent

\* ---- the endpoint loop of handle_proxy
\* the endpoint the loop is at after `done` finished attempts
\* (ENDPOINTS.iter().enumerate())
NextEndpointFirst(done) == 1
NextEndpoint(done) == done + 1

\* .json(&body): the body an attempt sends is the one built before the loop
AttemptBodyRegenerated(c) ==
    IF wire[c] = <<>>
    THEN req_body[c][1]
    ELSE [req_body[c][1] EXCEPT
              !.requestId = CHOOSE id \in RequestIds : id # req_body[c][1].requestId]
AttemptBody(c) == req_body[c][1]

\* the POST to the next endpoint of ENDPOINTS is sent
Send(c) ==
    /\ pc[c] = "attempt"
    /\ Len(results[c]) < Len(ENDPOINTS)
    /\ sent' = [sent EXCEPT ![c] = Append(@, NextEndpoint(Len(results[c])))]
    /\ wire' = [wire EXCEPT ![c] = Append(@, AttemptBody(c))]
    /\ pc' = [pc EXCEPT ![c] = "pending"]
    /\ UNCHANGED <<now, last_request, last_lock, permits, waiters, deadline,
                   charges, results, order, req_body, response>>
    /\ Silent

\* the queued call that a released permit is handed to
NextWaiter(w) == 1

\* permits given back when _permit is dropped at the return
PermitsOnDropNone == 1 - 1
PermitsOnDrop == 1

\* where `continue` leads while endpoints remain
AfterContinueRecharge == "acquired"
AfterContinue == "attempt"

RemoveAt(w, i) == [j \in 1..(Len(w) - 1) |-> IF j < i THEN w[j] ELSE w[j + 1]]

\* _permit is dropped by call c, which goes on to `to`: the permit is handed
\* to a queued call or returned to the semaphore
DropPermit(c, to) ==
    IF PermitsOnDrop = 0
    THEN /\ pc' = [pc EXCEPT ![c] = to]
         /\ UNCHANGED <<permits, waiters>>
    ELSE IF waiters # <<>>
    THEN /\ pc' = [pc EXCEPT ![c] = to,
                             ![waiters[NextWaiter(waiters)]] = "woken"]
         /\ waiters' = RemoveAt(waiters, NextWaiter(waiters))
         /\ UNCHANGED permits
    ELSE /\ pc' = [pc EXCEPT ![c] = to]
         /\ permits' = permits + PermitsOnDrop
         /\ UNCHANGED waiters

\* the locals of call c go out of scope
Forget(c) ==
    /\ order' = SelectSeq(order, LAMBDA x : x # c)
    /\ deadline' = [deadline EXCEPT ![c] = 0]
    /\ charges' = [charges EXCEPT ![c] = 0]
    /\ sent' = [sent EXCEPT ![c] = <<>>]
    /\ results' = [results EXCEPT ![c] = <<>>]
    /\ req_body' = [req_body EXCEPT ![c] = None]
    /\ wire' = [wire EXCEPT ![c] = <<>>]
    /\ response' = [response EXCEPT ![c] = None]

\* handle_proxy returns resp: the response goes to the caller and _permit is
\* dropped
Return(c, res, body, resp) ==
    /\ returned' = Some([sent |-> sent[c], results |-> res, body |-> body,
                         charges |-> charges[c], resp |-> resp])
    /\ Forget(c)
    /\ DropPermit(c, "done")
    /\ UNCHANGED <<now, last_request, last_lock>>
    /\ health' = None

\* the match on result runs: a return, a continue to the next endpoint, or,
\* after the last endpoint, the return of the 503 that follows the loop
RespondWith(c, result) ==
    LET m == MatchResult(result)
        res == Append(results[c], result.status)
    IN  IF ~m.continue
        THEN Return(c, res, result.body, m.resp)
        ELSE IF Len(res) < Len(ENDPOINTS)
        THEN /\ results' = [results EXCEPT ![c] = res]
             /\ response' = [response EXCEPT ![c] = None]
             /\ pc' = [pc EXCEPT ![c] = AfterContinue]
             /\ UNCHANGED <<now, last_request, last_lock, permits, waiters,
                            deadline, charges, sent, order, req_body, wire>>
             /\ Silent
        ELSE Return(c, res, NoBody, Exhausted)

\* Result<Response, reqwest::Error> of .send().await: the status line and the
\* headers have arrived, or the transport failed
SendResults ==
    { [ok |-> FALSE, status |-> 0] }
    \cup { [ok |-> TRUE, status |-> s] : s \in Statuses }

\* .send().await ends with r: on Ok(response) the handler takes the status and
\* suspends in response.text().await; on Err(e) the match continues
SendEndsWith(c, r) ==
    /\ pc[c] = "pending"
    /\ IF r.ok
       THEN /\ response' = [response EXCEPT ![c] = Some(r.status)]
            /\ pc' = [pc EXCEPT ![c] = "reading"]
            /\ UNCHANGED <<now, last_request, last_lock, permits, waiters,
                           deadline, charges, sent, results, order, req_body,
                           wire>>
            /\ Silent
       ELSE RespondWith(c, [ok |-> FALSE, status |-> 0, body |-> NoBody])

SendEnds(c) == \E r \in SendResults : SendEndsWith(c, r)

\* response.text().await ends, the body b having arrived whole or not, and the
\* arm of the match for the status runs
ReadTextWith(c, b) ==
    /\ pc[c] = "reading"
    /\ RespondWith(c, [ok |-> TRUE, status |-> response[c][1], body |-> b])

ReadText(c) == \E b \in Bodies : ReadTextWith(c, b)

\* ---- the connection of a call is closed by its client
\* the awaits of handle_proxy: acquire() (queued, or handed the permit and not
\* yet polled), lock(), sleep(), send() and text()
AwaitPoints == {"waiting", "woken", "acquired", "sleeping", "pending", "reading"}

\* the server drops the future of call c at the await it is suspended at: no
\* response is produced; Drop releases what the future holds (its place in the
\* semaphore's queue, or _permit, and the last_request guard)
DropFuture(c) ==
    /\ pc[c] \in AwaitPoints
    /\ Forget(c)
    /\ IF pc[c] = "waiting"
       THEN /\ waiters' = SelectSeq(waiters, LAMBDA x : x # c)
            /\ pc' = [pc EXCEPT ![c] = "dropped"]
            /\ UNCHANGED permits
       ELSE DropPermit(c, "dropped")
    /\ last_lock' = IF last_lock = Some(c) THEN None ELSE last_lock
    /\ UNCHANGED <<now, last_request>>
    /\ Silent

\* ---- GET /health
\* what health_check needs before it answers: it takes no State and awaits nothing
HealthNeedsPermit == permits > 0
HealthReady == TRUE

\* health_check answers "OK"
HealthCheck ==
    /\ HealthReady
    /\ health' = Some("OK")
    /\ returned' = None
    /\ UNCHANGED dispatch_vars

Next ==
    \/ Tick
    \/ \E c \in Calls : Acquire(c)
    \/ \E c \in Calls : LockLast(c)
    \/ \E c \in Calls : CheckElapsed(c)
    \/ \E c \in Calls : WakeUp(c)
    \/ \E c \in Calls : Stamp(c)
    \/ \E c \in Calls : Send(c)
    \/ \E c \in Calls : SendEnds(c)
    \/ \E c \in Calls : ReadText(c)
    \/ \E c \in Calls : DropFuture(c)
    \/ HealthCheck

Spec == Init /\ [][Next]_vars

\* ---------------------------------------------------------------- liveness
\* The specification for termination: each caller makes one call, every
\* suspended step of a call is eventually resumed (tokio polls a ready task,
\* the client's connect and overall timeouts end every send and every read of
\* a body), and the clock keeps running while a sleep(wait_time) has not yet
\* reached its deadline.  A client may close its connection at any time.

\* time passes beyond MaxTime for as long as a sleeping call needs it
LateTick ==
    /\ now + TickMs > MaxTime
    /\ \E c \in Calls : pc[c] = "sleeping" /\ now < deadline[c]
    /\ now' = now + TickMs
    /\ UNCHANGED <<last_request, last_lock, permits, waiters, pc, deadline,
                   charges, sent, results, order, req_body, wire, response>>
    /\ Silent

\* a caller's one call reaches request_semaphore.acquire()
FirstCall(c) ==
    /\ pc[c] = "idle"
    /\ Acquire(c)

LiveNext ==
    \/ Tick
    \/ LateTick
    \/ \E c \in Calls : FirstCall(c)
    \/ \E c \in Calls : LockLast(c)
    \/ \E c \in Calls : CheckElapsed(c)
    \/ \E c \in Calls : WakeUp(c)
    \/ \E c \in Calls : Stamp(c)
    \/ \E c \in Calls : Send(c)
    \/ \E c \in Calls : SendEnds(c)
    \/ \E c \in Calls : ReadText(c)
    \/ \E c \in Calls : DropFuture(c)

Fairness ==
    /\ WF_vars(Tick)
    /\ WF_vars(LateTick)
    /\ \A c \in Calls :
          /\ WF_vars(LockLast(c))
          /\ WF_vars(CheckElapsed(c))
          /\ WF_vars(WakeUp(c))
          /\ WF_vars(Stamp(c))
          /\ WF_vars(Send(c))
          /\ WF_vars(SendEnds(c))
          /\ WF_vars(ReadText(c))

LiveSpec == Init /\ [][LiveNext]_vars /\ Fairness

\* ================================================================ claims
\* an attempt's status as recorded in results: a 5xx status or a transport
\* failure (0)
TransientFailure(x) == x = 0 \/ (x >= 500 /\ x <= 599)

\* a response is the synthesized service-unavailable outcome
IsExhaustedOutcome(resp) ==
    /\ resp.http = 503
    /\ resp.json.success = FALSE
    /\ resp.json.data = None
    /\ resp.json.status_code = Some(503)
    /\ resp.json.error = Some(AllEndpointsFailed)

\* C1: at most one call is between acquiring the request_semaphore permit and
\* returning its response, in every reachable state.
C1_MutualExclusion ==
    Cardinality({c \in Calls : InRegion(c)}) <= 1

\* one call awaits its upstream response while the other calls wait at the gate
C1_Witness ==
    \E c \in Calls :
        /\ pc[c] = "pending"
        /\ \A d \in Calls \ {c} : pc[d] = "waiting"

\* C2: every write of last_request that follows an earlier one stores a
\* timestamp at least MIN_REQUEST_INTERVAL_MS (500 ms) later than the value
\* it overwrites.
C2_MinimumSpacing ==
    [][\A c \in Calls :
          (pc[c] = "stamp" /\ pc'[c] = "attempt" /\ last_request # None)
              => last_request'[1] - last_request[1] >= 500]_vars

\* a call that had to sleep has written its dispatch start, exactly the
\* interval after the previous one
C2_Witness ==
    \E c \in Calls :
        /\ pc[c] = "attempt"
        /\ deadline[c] >= 500
        /\ last_request = Some(deadline[c])

\* C3: a 429 ends the sequence at once with HTTP 429, success=false,
\* status_code=429 and error equal to the endpoint's response body unchanged;
\* no later endpoint is invoked.
C3_NoRetryOn429 ==
    /\ \A c \in Calls : \A i \in DOMAIN results[c] : results[c][i] # 429
    /\ returned # None =>
         LET r == returned[1] IN
         \A i \in DOMAIN r.results :
             r.results[i] = 429 =>
                 /\ i = Len(r.results)
                 /\ Len(r.sent) = i
                 /\ r.resp.http = 429
                 /\ r.resp.json.success = FALSE
                 /\ r.resp.json.status_code = Some(429)
                 /\ r.resp.json.error = Some(r.body.bytes)

\* C4: after a 5xx or a transport failure the next endpoint, when there is one,
\* is invoked; and endpoint 1 answering 500, endpoint 2 a 2xx with body B gives
\* success=true with data exactly B, endpoint 2 having been invoked.
C4_Failover ==
    /\ \A c \in Calls :
         (pc[c] = "pending" /\ results[c] # <<>>) =>
             sent[c] = [i \in 1..(Len(results[c]) + 1) |-> i]
    /\ returned # None =>
         LET r == returned[1] IN
         /\ \A i \in DOMAIN r.results :
                (TransientFailure(r.results[i]) /\ i < Len(ENDPOINTS)) =>
                    (Len(r.sent) >= i + 1 /\ r.sent[i + 1] = i + 1)
         /\ (Len(r.results) = 2 /\ r.results[1] = 500
                 /\ r.results[2] >= 200 /\ r.results[2] <= 299) =>
                /\ r.sent = <<1, 2>>
                /\ r.resp.json.success = TRUE
                /\ r.resp.json.data = Some(r.body.bytes)

\* C5: the call resolves with the synthesized 503 "All endpoints failed"
\* outcome if and only if every endpoint was attempted and each attempt ended
\* in a 5xx status or a transport failure, whatever the 5xx codes were.
C5_Exhaustion ==
    returned # None =>
        LET r == returned[1] IN
        IsExhaustedOutcome(r.resp)
            <=> /\ Len(r.results) = Len(ENDPOINTS)
                /\ r.sent = [i \in 1..Len(ENDPOINTS) |-> i]
                /\ \A i \in DOMAIN r.results : TransientFailure(r.results[i])

\* two different transient failures ended in the exhaustion outcome
C5_Witness ==
    /\ returned # None
    /\ returned[1].results \in {<<500, 503>>, <<0, 500>>, <<503, 0>>}
    /\ IsExhaustedOutcome(returned[1].resp)

\* C6: a 400, 401 or 403 ends the sequence at once with that status (as HTTP
\* status and as status_code), success=false and error equal to the endpoint's
\* response body; no later endpoint is attempted.
C6_ShortCircuit ==
    /\ \A c \in Calls :
         \A i \in DOMAIN results[c] : results[c][i] \notin {400, 401, 403}
    /\ returned # None =>
         LET r == returned[1] IN
         \A i \in DOMAIN r.results :
             r.results[i] \in {400, 401, 403} =>
                 /\ i = Len(r.results)
                 /\ Len(r.sent) = i
                 /\ r.resp.http = r.results[i]
                 /\ r.resp.json.success = FALSE
                 /\ r.resp.json.status_code = Some(r.results[i])
                 /\ r.resp.json.error = Some(r.body.bytes)

\* C7: every return of handle_proxy carries one terminal outcome: all attempts
\* before the last were transient failures, and the response is Success,
\* RateLimited(429), BadRequest(400), AuthError(401/403), OtherError(code) for
\* the last attempt's status, or Exhausted(503) when the last attempt was
\* transient too; an upstream 5xx or a transport failure is never the response.
C7_TerminalOutcome ==
    /\ \A c \in Calls :
         \A i \in DOMAIN results[c] : TransientFailure(results[c][i])
    /\ returned # None =>
         LET r == returned[1]
             n == Len(r.results)
             last == r.results[n]
         IN  /\ n >= 1
             /\ \A i \in 1..(n - 1) : TransientFailure(r.results[i])
             /\ IF TransientFailure(last)
                THEN n = Len(ENDPOINTS) /\ IsExhaustedOutcome(r.resp)
                ELSE IF last >= 200 /\ last <= 299
                THEN r.resp.http = 200 /\ r.resp.json.success = TRUE
                ELSE /\ r.resp.http = last
                     /\ r.resp.json.success = FALSE
                     /\ r.resp.json.status_code = Some(last)
             /\ (r.resp.http >= 500 \/ r.resp.http < 200) => IsExhaustedOutcome(r.resp)

\* a 5xx on the last endpoint, after a transport failure on the first, came
\* back as the exhaustion outcome
C7_Witness ==
    /\ returned # None
    /\ returned[1].results = <<0, 503>>
    /\ IsExhaustedOutcome(returned[1].resp)

\* C8: whenever no call is between acquiring the permit and returning, the
\* permit is back in the semaphore and no call is left waiting for it; a held
\* permit is always held by a call in flight.
C8_GateReleased ==
    /\ permits + Cardinality({c \in Calls : InRegion(c)}) = 1
    /\ (\A c \in Calls : ~InRegion(c)) =>
           (permits = 1 /\ \A c \in Calls : pc[c] # "waiting")

\* every call has returned (the latest by exhaustion) and the permit is free
C8_Witness ==
    /\ \A c \in Calls : pc[c] = "done"
    /\ returned # None
    /\ IsExhaustedOutcome(returned[1].resp)
    /\ permits = 1

\* C9: of the calls that requested the gate and have not ended, only the
\* oldest can hold the permit or have begun its rate-limiter wait, every later
\* one is still waiting at the gate; and a waiting call leaves the queue only
\* by being handed the permit in the step in which the call ahead of it
\* returns its outcome.
C9_Fifo ==
    /\ [](\A j \in 2..Len(order) : pc[order[j]] = "waiting")
    /\ [][\A d \in Calls :
             (pc[d] = "waiting" /\ pc'[d] # "waiting") =>
                 /\ pc'[d] = "woken"
                 /\ d = order[2]
                 /\ returned' # None]_vars

\* C10: a call writes last_request exactly once, between acquiring the gate
\* and its first endpoint attempt; no other step of any call changes it.
C10_OneCharge ==
    /\ [](/\ \A c \in Calls :
               /\ pc[c] \in {"attempt", "pending", "reading"} => charges[c] = 1
               /\ pc[c] \in {"waiting", "acquired", "woken", "locked",
                             "sleeping", "stamp"} => charges[c] = 0
          /\ returned # None => returned[1].charges = 1)
    /\ [][(last_request' # last_request)
            => \E c \in Calls :
                  /\ pc[c] = "stamp" /\ pc'[c] = "attempt"
                  /\ sent[c] = <<>> /\ results[c] = <<>>
                  /\ charges[c] = 0 /\ charges'[c] = 1]_vars

\* a call that tried both endpoints returned having written last_request once
C10_Witness ==
    /\ returned # None
    /\ returned[1].sent = <<1, 2>>
    /\ returned[1].charges = 1

\* C11: whenever a call resolves with success=true, its data is the complete
\* body the answering endpoint sent, unmodified, also when reading that body
\* fails after the 2xx status was received.
C11_SuccessBodyIntact ==
    returned # None =>
        LET r == returned[1] IN
        r.resp.json.success = TRUE =>
            /\ r.results[Len(r.results)] >= 200
            /\ r.results[Len(r.results)] <= 299
            /\ r.resp.json.data = Some(r.body.bytes)

\* C12: every attempt of a call puts on the wire the one body built before the
\* loop (same requestId, same payload of that call); the body, with its id, is
\* built in the call's own step between the rate limiter and the first
\* attempt, once per call, and no other call's step sets it; it lasts until
\* the call ends.
C12_RequestIdFixed ==
    /\ [](\A c \in Calls :
              /\ Len(wire[c]) = Len(sent[c])
              /\ \A i \in DOMAIN wire[c] :
                     /\ req_body[c] # None
                     /\ wire[c][i] = req_body[c][1]
                     /\ wire[c][i].requestId = wire[c][1].requestId
              /\ pc[c] \in {"attempt", "pending", "reading"} =>
                     /\ req_body[c] # None
                     /\ req_body[c][1].requestId \in RequestIds
                     /\ req_body[c][1].payload = c
              /\ pc[c] \in {"waiting", "acquired", "woken", "locked",
                            "sleeping", "stamp"} => req_body[c] = None)
    /\ [][\A c \in Calls :
             req_body'[c] # req_body[c] =>
                 \/ pc[c] = "stamp" /\ pc'[c] = "attempt" /\ req_body[c] = None
                 \/ pc'[c] \in {"done", "dropped"} /\ req_body'[c] = None]_vars

\* the failover attempt of a call is on the wire with the id of its first attempt
C12_Witness ==
    \E c \in Calls :
        /\ pc[c] = "pending"
        /\ Len(wire[c]) = 2
        /\ wire[c][2].requestId = wire[c][1].requestId
        /\ wire[c][1].requestId = "agent-uuid-b"

\* C13: a call that holds the gate leaves the region only by returning its
\* outcome (no step abandons it after the acquire, during the rate-limiter
\* wait or during an endpoint attempt), and while its upstream call is pending
\* no other call is past the gate and every waiting call stays waiting.
C13_NoCancellation ==
    /\ [](\A c \in Calls :
              pc[c] \in {"pending", "reading"} =>
                  \A d \in Calls \ {c} : ~InRegion(d))
    /\ [][\A c \in Calls :
             /\ (InRegion(c) /\ ~(pc'[c] \in Region)) =>
                    /\ pc'[c] = "done"
                    /\ returned' # None
                    /\ returned'[1].sent = sent[c]
                    /\ Len(returned'[1].results) = Len(results[c]) + 1
             /\ (pc[c] \in {"pending", "reading"}
                     /\ pc'[c] \in {"pending", "reading"}) =>
                    \A d \in Calls : pc[d] = "waiting" => pc'[d] = "waiting"]_vars

\* C14: the /health route can answer in every reachable state, whoever holds
\* the permit or the timestamp lock and whoever is queued, and answering
\* changes neither the semaphore, the timestamp, its lock nor any call.
C14_HealthUnblocked ==
    /\ [](ENABLED HealthCheck)
    /\ [][health' = Some("OK") =>
             UNCHANGED <<last_request, last_lock, permits, waiters, pc, order>>]_vars

\* /health answers while one call holds the permit and awaits its upstream
\* response and the others are queued at the gate
C14_Witness ==
    /\ health = Some("OK")
    /\ permits = 0
    /\ \E c \in Calls :
          /\ pc[c] = "pending"
          /\ \A d \in Calls \ {c} : pc[d] = "waiting"

\* C15: enforce_rate_limit sleeps exactly MIN_REQUEST_INTERVAL_MS minus the
\* elapsed time when a timestamp exists and less than the interval has
\* elapsed, does not sleep when there is no timestamp or the interval has
\* elapsed, and in every case then sets last_request to the current instant.
C15_WaitAmount ==
    /\ [](\A c \in Calls :
              pc[c] = "sleeping" =>
                  /\ last_request # None
                  /\ deadline[c] = last_request[1] + 500)
    /\ [][\A c \in Calls :
             /\ (pc[c] = "locked" /\ pc'[c] = "sleeping") =>
                    /\ last_request # None
                    /\ now - last_request[1] < 500
                    /\ deadline'[c] - now = 500 - (now - last_request[1])
             /\ (pc[c] = "locked" /\ pc'[c] = "stamp") =>
                    (last_request = None \/ now - last_request[1] >= 500)
             /\ (pc[c] = "locked" /\ pc'[c] # "locked") =>
                    pc'[c] \in {"sleeping", "stamp"}
             /\ (pc[c] = "stamp" /\ pc'[c] # "stamp") =>
                    (pc'[c] = "attempt" /\ last_request' = Some(now))]_vars

\* a call sleeps for the rest of an interval that had partly elapsed when it
\* read the timestamp
C15_Witness ==
    \E c \in Calls :
        /\ pc[c] = "sleeping"
        /\ last_request # None
        /\ deadline[c] = last_request[1] + 500
        /\ now > last_request[1]
        /\ now < deadline[c]

\* C16: a status that is not 2xx, not 5xx and not 429/400/401/403 ends the
\* sequence at once with success=false, status_code and HTTP status equal to
\* that code and error equal to the upstream body; no later endpoint is tried.
C16_OtherStatusTerminal ==
    LET Other(x) == /\ x # 0
                    /\ ~(x >= 200 /\ x <= 299)
                    /\ ~(x >= 500 /\ x <= 599)
                    /\ x \notin {429, 400, 401, 403}
    IN  /\ \A c \in Calls : \A i \in DOMAIN results[c] : ~Other(results[c][i])
        /\ returned # None =>
             LET r == returned[1] IN
             \A i \in DOMAIN r.results :
                 Other(r.results[i]) =>
                     /\ i = Len(r.results)
                     /\ Len(r.sent) = i
                     /\ r.resp.http = r.results[i]
                     /\ r.resp.json.success = FALSE
                     /\ r.resp.json.status_code = Some(r.results[i])
                     /\ r.resp.json.error = Some(r.body.bytes)

\* C17: the last_request lock is held only by a call that holds the permit and
\* is inside enforce_rate_limit, last_request changes only in a step of the
\* lock holder, a call that is about to take the lock always finds it free, and
\* a call waiting at the gate always has a call in flight ahead of it that is
\* not itself waiting for a lock.
C17_Guards ==
    /\ [](/\ last_lock # None =>
                pc[last_lock[1]] \in {"locked", "sleeping", "stamp"}
          /\ \A c \in Calls :
                /\ pc[c] \in {"locked", "sleeping", "stamp"} => last_lock = Some(c)
                /\ pc[c] \in {"acquired", "woken"} => last_lock = None
                /\ pc[c] = "waiting" => \E d \in Calls : InRegion(d))
    /\ [][last_request' # last_request =>
             \E c \in Calls : last_lock = Some(c) /\ InRegion(c)]_vars

\* the lock holder sleeps inside enforce_rate_limit while another call waits
\* at the gate
C17_Witness ==
    \E c \in Calls :
        /\ pc[c] = "sleeping"
        /\ last_lock = Some(c)
        /\ \E d \in Calls : pc[d] = "waiting"

\* C18: the endpoints a call invokes are 1, 2, ... in order, each at most
\* once and at most Len(ENDPOINTS) of them; endpoint k+1 is invoked exactly
\* when endpoint k ended in a 5xx status or a transport failure.
C18_InOrderPrefix ==
    /\ \A c \in Calls :
         /\ Len(sent[c]) <= Len(ENDPOINTS)
         /\ sent[c] = [i \in 1..Len(sent[c]) |-> i]
         /\ Len(sent[c]) = Len(results[c])
                                + (IF pc[c] \in {"pending", "reading"} THEN 1 ELSE 0)
         /\ \A i \in DOMAIN results[c] : TransientFailure(results[c][i])
    /\ returned # None =>
         LET r == returned[1]
             n == Len(r.results)
         IN  /\ n >= 1 /\ n <= Len(ENDPOINTS)
             /\ r.sent = [i \in 1..n |-> i]
             /\ \A i \in 1..(n - 1) : TransientFailure(r.results[i])
             /\ n < Len(ENDPOINTS) => ~TransientFailure(r.results[n])

\* a transport failure on endpoint 1 led to endpoint 2, whose 404 ended the call
C18_Witness ==
    /\ returned # None
    /\ returned[1].sent = <<1, 2>>
    /\ returned[1].results = <<0, 404>>

\* C19: a call queued at the gate is eventually handed the permit, and a call
\* that has requested the gate eventually returns (its outcome is the one
\* written by the step that takes it to "done").
C19_EventuallyResolves ==
    \A c \in Calls :
        /\ (pc[c] = "waiting") ~> (pc[c] = "woken")
        /\ (pc[c] \notin {"idle", "done"}) ~> (pc[c] = "done")

\* C20: in every response success=true goes with data present, error null and
\* status_code absent, and occurs only for an upstream 2xx; success=false goes
\* with data null, error present and status_code equal to the HTTP status; a
\* 5xx status_code occurs only as the synthesized 503 of exhaustion.
C20_Envelope ==
    returned # None =>
        LET r == returned[1]
            j == r.resp.json
            last == r.results[Len(r.results)]
        IN  /\ j.success \in BOOLEAN
            /\ j.success = TRUE <=>
                   (j.data # None /\ j.error = None /\ j.status_code = None)
            /\ j.success = FALSE <=>
                   (j.data = None /\ j.error # None
                        /\ j.status_code = Some(r.resp.http))
            /\ j.success = TRUE => (last >= 200 /\ last <= 299)
            /\ (j.status_code # None /\ j.status_code[1] >= 500) =>
                   IsExhaustedOutcome(r.resp)

\* an upstream 204 came back as a success envelope without status_code
C20_Witness ==
    /\ returned # None
    /\ returned[1].results = <<204>>
    /\ returned[1].resp.json.success = TRUE
    /\ returned[1].resp.json.status_code = None
====
